---- MODULE Spec2Model ----
(***************************************************************************)
(* Builder pattern of src/creational/builder.ts: two concrete builders     *)
(* (CheapHouseBuilder, CastleBuilder) assemble a House, a list of part     *)
(* labels, step by step; a Director runs fixed recipes on the builder it   *)
(* is bound to.  House objects live in a heap and are referred to by       *)
(* identity, so that aliasing and ownership are visible.                   *)
(***************************************************************************)
EXTENDS Integers, Sequences, FiniteSets, TLC

\* Bounds of the model.
MaxHouses == 4      \* House objects allocated in a run of Spec
MaxAppends == 2     \* recipes and direct step calls completed in a run of Spec
MaxStepHouses == 3  \* House objects allocated in a run of SpecSteps
MaxSteps == 2       \* step calls made in a run of SpecSteps

\* The builder objects of a run, one of each concrete class.
Builders == {"cheap", "castle"}

\* The class of each builder object.
ClassOf(b) == IF b = "cheap" THEN "CheapHouseBuilder" ELSE "CastleBuilder"

\* The seven step operations of the Builder interface.
Steps == {"produceWalls", "produceWindows", "produceDoor", "produceRoof",
          "produceSwimmingPool", "produceGarage", "produceGarden"}

Recipes == {"buildBasicHouse", "buildFullHouse"}

\* Director.builder before setBuilder; a builder's house before construction.
undefined == "undefined"
null == 0

VARIABLES
    constructed,   \* builder objects that exist
    house,         \* house[b]: the House a builder references (this.house)
    heap,          \* heap[h]: the parts array of House h; h is its index
    director,      \* Director.builder
    retrieved,     \* the Houses getHouse() returned, in order, as the client holds them
    calls,         \* calls[b]: calls made on b since its construction, reset or getHouse
    last,          \* the most recent call and whether it threw
    nCalls         \* step calls and recipes completed so far

vars == <<constructed, house, heap, director, retrieved, calls, last, nCalls>>

----------------------------------------------------------------------------
\* Labels and rendering

\* The label CheapHouseBuilder pushes in each step.
CheapLabel(step) ==
    CASE step = "produceWalls" -> "Walls"
      [] step = "produceWindows" -> "Windows"
      [] step = "produceDoor" -> "Door"
      [] step = "produceRoof" -> "Roof"
      [] step = "produceSwimmingPool" -> "Swimming pool"
      [] step = "produceGarage" -> "Garage"
      [] step = "produceGarden" -> "Garden"

\* CastleBuilder with the garage and swimming pool labels exchanged.
CastleLabelSwapped(step) ==
    CASE step = "produceWalls" -> "Walls marmol"
      [] step = "produceWindows" -> "Windows"
      [] step = "produceDoor" -> "Door"
      [] step = "produceRoof" -> "Roof"
      [] step = "produceSwimmingPool" -> "Garage"
      [] step = "produceGarage" -> "Swimming pool"
      [] step = "produceGarden" -> "Garden"

\* The label CastleBuilder pushes in each step.
CastleLabel(step) ==
    CASE step = "produceWalls" -> "Walls marmol"
      [] step = "produceWindows" -> "Windows"
      [] step = "produceDoor" -> "Door"
      [] step = "produceRoof" -> "Roof"
      [] step = "produceSwimmingPool" -> "Swimming pool"
      [] step = "produceGarage" -> "Garage"
      [] step = "produceGarden" -> "Garden"

LabelOf(b, step) ==
    IF ClassOf(b) = "CheapHouseBuilder" THEN CheapLabel(step) ELSE CastleLabel(step)

\* Array.prototype.join
RECURSIVE join(_, _)
join(parts, sep) ==
    IF Len(parts) = 0 THEN ""
    ELSE IF Len(parts) = 1 THEN parts[1]
    ELSE parts[1] \o sep \o join(Tail(parts), sep)

\* The text House.listParts hands to console.log.
listParts(parts) == "House parts: " \o join(parts, ", ") \o "\n"

----------------------------------------------------------------------------
\* Heap operations

\* new House(): a fresh object with parts = []; its identity is its index.
NewHouse(hp) == Append(hp, <<>>)

\* A push that skips a label the parts already hold.
pushUnique(hp, h, label) ==
    IF \E k \in DOMAIN hp[h] : hp[h][k] = label THEN hp
    ELSE [hp EXCEPT ![h] = Append(@, label)]

\* this.house.parts.push(label)
push(hp, h, label) == [hp EXCEPT ![h] = Append(@, label)]

\* One step call on builder b, on the heap hp.
produce(hp, b, step) == push(hp, house[b], LabelOf(b, step))

Call(op, b, threw) == [op |-> op, b |-> b, threw |-> threw]

----------------------------------------------------------------------------
Init ==
    /\ constructed = {}
    /\ house = [b \in Builders |-> null]
    /\ heap = <<>>
    /\ director = undefined
    /\ retrieved = <<>>
    /\ calls = [b \in Builders |-> <<>>]
    /\ last = Call("none", undefined, FALSE)
    /\ nCalls = 0

\* A reset that hands every builder one shared House, created once.
ResetShared(b) ==
    [heap |-> IF heap = <<>> THEN NewHouse(heap) ELSE heap,
     house |-> [house EXCEPT ![b] = 1]]

\* The effect of reset() on builder b: this.house = new House()
Reset(b) ==
    [heap |-> NewHouse(heap), house |-> [house EXCEPT ![b] = Len(heap) + 1]]

\* reset()
reset(b) ==
    /\ b \in constructed
    /\ heap' = Reset(b).heap
    /\ house' = Reset(b).house
    /\ calls' = [calls EXCEPT ![b] = <<>>]
    /\ last' = Call("reset", b, FALSE)
    /\ UNCHANGED <<constructed, director, retrieved, nCalls>>

\* new CheapHouseBuilder() / new CastleBuilder(bridge): the constructor calls reset()
New(b) ==
    /\ b \notin constructed
    /\ constructed' = constructed \cup {b}
    /\ heap' = Reset(b).heap
    /\ house' = Reset(b).house
    /\ calls' = [calls EXCEPT ![b] = <<>>]
    /\ last' = Call("new", b, FALSE)
    /\ UNCHANGED <<director, retrieved, nCalls>>

\* A step called directly by the client: builder.produceX()
Step(b, step) ==
    /\ b \in constructed
    /\ heap' = produce(heap, b, step)
    /\ calls' = [calls EXCEPT ![b] = Append(@, step)]
    /\ last' = Call(step, b, FALSE)
    /\ nCalls' = nCalls + 1
    /\ UNCHANGED <<constructed, house, director, retrieved>>

produceWalls(b) == Step(b, "produceWalls")
produceWindows(b) == Step(b, "produceWindows")
produceDoor(b) == Step(b, "produceDoor")
produceRoof(b) == Step(b, "produceRoof")
produceSwimmingPool(b) == Step(b, "produceSwimmingPool")
produceGarage(b) == Step(b, "produceGarage")
produceGarden(b) == Step(b, "produceGarden")

\* A getHouse that reads this.house only after the reset.
ResultAfterReset(b) == Len(heap) + 1

\* The House getHouse() returns: const result = this.house, read before the reset.
Result(b) == house[b]

\* A getHouse without the call of reset(): the builder keeps the House it returned.
getHouseNoReset(b) ==
    /\ b \in constructed
    /\ retrieved' = Append(retrieved, [h |-> house[b], b |-> b, calls |-> calls[b]])
    /\ calls' = [calls EXCEPT ![b] = <<>>]
    /\ last' = Call("getHouse", b, FALSE)
    /\ UNCHANGED <<constructed, house, heap, director, nCalls>>

\* getHouse(): const result = this.house; this.reset(); return result
getHouse(b) ==
    /\ b \in constructed
    /\ heap' = Reset(b).heap
    /\ house' = Reset(b).house
    /\ retrieved' = Append(retrieved, [h |-> Result(b), b |-> b, calls |-> calls[b]])
    /\ calls' = [calls EXCEPT ![b] = <<>>]
    /\ last' = Call("getHouse", b, FALSE)
    /\ UNCHANGED <<constructed, director, nCalls>>

\* A setBuilder that keeps the builder bound first: this.builder = this.builder || builder
BoundKeepsFirst(b) == IF director = undefined THEN b ELSE director

\* The builder the Director holds after setBuilder(b): this.builder = builder
Bound(b) == b

\* Director.setBuilder(builder)
setBuilder(b) ==
    /\ b \in constructed
    /\ director' = Bound(b)
    /\ last' = Call("setBuilder", b, FALSE)
    /\ UNCHANGED <<constructed, house, heap, retrieved, calls, nCalls>>

\* The basic recipe with the door made before the windows.
BasicStepsSwapped == <<"produceWalls", "produceDoor", "produceWindows", "produceRoof">>

\* The full recipe with the swimming pool made before the garage.
FullStepsPoolFirst == <<"produceWalls", "produceWindows", "produceDoor", "produceRoof",
                        "produceSwimmingPool", "produceGarage", "produceGarden">>

\* The step calls of the two recipes, in the order of the code.
BasicSteps == <<"produceWalls", "produceWindows", "produceDoor", "produceRoof">>

FullSteps == <<"produceWalls", "produceWindows", "produceDoor", "produceRoof",
               "produceGarage", "produceSwimmingPool", "produceGarden">>

\* The heap after the step calls of a recipe, made one after the other on b.
RECURSIVE RunSteps(_, _, _)
RunSteps(hp, b, steps) ==
    IF steps = <<>> THEN hp
    ELSE RunSteps(produce(hp, b, Head(steps)), b, Tail(steps))

\* A recipe that does nothing, silently, on a Director with no builder.
UnboundSilent(recipe) ==
    /\ director = undefined
    /\ last' = Call(recipe, undefined, FALSE)
    /\ UNCHANGED <<constructed, house, heap, director, retrieved, calls, nCalls>>

\* A recipe on a Director with no builder: this.builder is undefined, so the
\* first this.builder.produceWalls() throws a TypeError before any effect.
Unbound(recipe) ==
    /\ director = undefined
    /\ last' = Call(recipe, undefined, TRUE)
    /\ UNCHANGED <<constructed, house, heap, director, retrieved, calls, nCalls>>

\* A recipe on a Director bound to a builder.
Run(recipe, steps) ==
    /\ director # undefined
    /\ heap' = RunSteps(heap, director, steps)
    /\ calls' = [calls EXCEPT ![director] = Append(@, recipe)]
    /\ last' = Call(recipe, director, FALSE)
    /\ nCalls' = nCalls + 1
    /\ UNCHANGED <<constructed, house, director, retrieved>>

buildBasicHouse == Unbound("buildBasicHouse") \/ Run("buildBasicHouse", BasicSteps)

buildFullHouse == Unbound("buildFullHouse") \/ Run("buildFullHouse", FullSteps)

----------------------------------------------------------------------------
\* Specifications

\* The whole program: builders, Director and client calls in any order.  The
\* client calls two of the seven steps directly here (the one whose label
\* differs between the classes and one whose label does not); the recipes
\* call all seven.
Next ==
    \/ \E b \in Builders : Len(heap) < MaxHouses /\ New(b)
    \/ \E b \in Builders : Len(heap) < MaxHouses /\ reset(b)
    \/ \E b \in Builders : nCalls < MaxAppends /\ produceWalls(b)
    \/ \E b \in Builders : nCalls < MaxAppends /\ produceGarden(b)
    \/ \E b \in Builders : Len(heap) < MaxHouses /\ getHouse(b)
    \/ \E b \in Builders : setBuilder(b)
    \/ (director # undefined => nCalls < MaxAppends) /\ buildBasicHouse
    \/ (director # undefined => nCalls < MaxAppends) /\ buildFullHouse

Spec == Init /\ [][Next]_vars

\* The builders used without a Director, as at the end of clientCode: every
\* step in any order.
NextSteps ==
    \/ \E b \in Builders : Len(heap) < MaxStepHouses /\ New(b)
    \/ \E b \in Builders : Len(heap) < MaxStepHouses /\ reset(b)
    \/ \E b \in Builders : nCalls < MaxSteps /\ produceWalls(b)
    \/ \E b \in Builders : nCalls < MaxSteps /\ produceWindows(b)
    \/ \E b \in Builders : nCalls < MaxSteps /\ produceDoor(b)
    \/ \E b \in Builders : nCalls < MaxSteps /\ produceRoof(b)
    \/ \E b \in Builders : nCalls < MaxSteps /\ produceSwimmingPool(b)
    \/ \E b \in Builders : nCalls < MaxSteps /\ produceGarage(b)
    \/ \E b \in Builders : nCalls < MaxSteps /\ produceGarden(b)
    \/ \E b \in Builders : Len(heap) < MaxStepHouses /\ getHouse(b)

SpecSteps == Init /\ [][NextSteps]_vars

TypeOK ==
    /\ constructed \subseteq Builders
    /\ \A b \in Builders : house[b] \in 0..Len(heap)
    /\ director \in Builders \cup {undefined}
    /\ nCalls \in Nat

----------------------------------------------------------------------------
\* Properties

\* The parts the two recipes are to produce, per class, as literal labels.
BasicParts(b) ==
    IF ClassOf(b) = "CheapHouseBuilder"
    THEN <<"Walls", "Windows", "Door", "Roof">>
    ELSE <<"Walls marmol", "Windows", "Door", "Roof">>

FullParts(b) ==
    IF ClassOf(b) = "CheapHouseBuilder"
    THEN <<"Walls", "Windows", "Door", "Roof", "Garage", "Swimming pool", "Garden">>
    ELSE <<"Walls marmol", "Windows", "Door", "Roof", "Garage", "Swimming pool", "Garden">>

\* The labels of builder b for a sequence of step calls.
LabelsFor(b, cs) == [k \in 1..Len(cs) |-> LabelOf(b, cs[k])]

OnlySteps(cs) == \A k \in DOMAIN cs : cs[k] \in Steps

\* The kind of part a label stands for.
KindOf(label) ==
    CASE label \in {"Walls", "Walls marmol"} -> "walls"
      [] label = "Windows" -> "windows"
      [] label = "Door" -> "door"
      [] label = "Roof" -> "roof"
      [] label = "Swimming pool" -> "swimming pool"
      [] label = "Garage" -> "garage"
      [] label = "Garden" -> "garden"

\* C1: on a freshly constructed or reset builder, every sequence of step
\* calls, in any order and with repetitions, is accepted, and the House the
\* next getHouse() returns holds exactly that builder's labels for the calls,
\* in call order, none reordered, dropped or deduplicated.
C1_OrderPreserved ==
    /\ ~last.threw
    /\ \A i \in DOMAIN retrieved :
          OnlySteps(retrieved[i].calls)
              => heap[retrieved[i].h] = LabelsFor(retrieved[i].b, retrieved[i].calls)

\* A House retrieved from a CastleBuilder after the roof was made before the
\* walls.
C1_Witness ==
    \E i \in DOMAIN retrieved :
        /\ retrieved[i].b = "castle"
        /\ retrieved[i].calls = <<"produceRoof", "produceWalls">>
        /\ heap[retrieved[i].h] = <<"Roof", "Walls marmol">>

\* C2: getHouse() followed immediately by another getHouse() on the same
\* builder returns, the second time, a House with no parts.
C2_SecondGetEmpty ==
    [][(last.op = "getHouse" /\ last'.op = "getHouse" /\ last'.b = last.b)
          => heap'[retrieved'[Len(retrieved')].h] = <<>>]_vars

\* Two getHouse() calls in a row on one builder, the first of which returned
\* a House with parts.
C2_Witness ==
    /\ last.op = "getHouse"
    /\ Len(retrieved) >= 2
    /\ LET n == Len(retrieved) IN
          /\ retrieved[n].b = retrieved[n - 1].b
          /\ retrieved[n].h = retrieved[n - 1].h + 1
          /\ retrieved[n].calls = <<>>
          /\ heap[retrieved[n - 1].h] # <<>>
          /\ heap[retrieved[n].h] = <<>>

\* C3 as stated: whatever the builder held when buildBasicHouse() was
\* invoked, the House retrieved right after the recipe has exactly the four
\* parts walls, windows, door, roof.
C3_AnyState ==
    \A i \in DOMAIN retrieved :
        LET r == retrieved[i] IN
        (r.calls # <<>> /\ r.calls[Len(r.calls)] = "buildBasicHouse")
            => heap[r.h] = BasicParts(r.b)

\* C3, amended: on a bound builder whose current product is empty when
\* buildBasicHouse() is invoked, the House retrieved after the recipe has
\* exactly the four parts walls, windows, door, roof, in that order.
C3_FromEmpty ==
    \A i \in DOMAIN retrieved :
        LET r == retrieved[i] IN
        r.calls = <<"buildBasicHouse">> => heap[r.h] = BasicParts(r.b)

\* A House retrieved after one basic recipe on each class of builder.
C3_Witness ==
    \E i \in DOMAIN retrieved :
        /\ retrieved[i].calls = <<"buildBasicHouse">>
        /\ retrieved[i].b = "castle"
        /\ Len(heap[retrieved[i].h]) = 4

\* C4 as stated: the House retrieved right after buildFullHouse() on a bound
\* builder has exactly the seven parts of the recipe.
C4_AnyState ==
    \A i \in DOMAIN retrieved :
        LET r == retrieved[i] IN
        (r.calls # <<>> /\ r.calls[Len(r.calls)] = "buildFullHouse")
            => heap[r.h] = FullParts(r.b)

\* C4, amended: on a bound builder whose current product is empty when
\* buildFullHouse() is invoked, the House retrieved after the recipe has
\* exactly the seven parts walls, windows, door, roof, garage, swimming pool,
\* garden, in that order.
C4_FromEmpty ==
    \A i \in DOMAIN retrieved :
        LET r == retrieved[i] IN
        r.calls = <<"buildFullHouse">> => heap[r.h] = FullParts(r.b)

\* A House retrieved after one full recipe.
C4_Witness ==
    \E i \in DOMAIN retrieved :
        /\ retrieved[i].calls = <<"buildFullHouse">>
        /\ retrieved[i].b = "cheap"
        /\ Len(heap[retrieved[i].h]) = 7

\* C5: a recipe invoked while no builder is bound throws at once, never a
\* silent no-op; no House gains a part, no builder changes its House, nothing
\* is retrieved and the Director stays unbound.
C5_UnboundThrows ==
    [][(last'.op \in Recipes /\ director = undefined)
          => /\ last'.threw
             /\ heap' = heap
             /\ house' = house
             /\ retrieved' = retrieved
             /\ director' = undefined]_vars

\* A recipe has thrown on an unbound Director while both builders existed and
\* one of them held a product in progress.
C5_Witness ==
    /\ last.threw
    /\ last.op = "buildFullHouse"
    /\ director = undefined
    /\ constructed = Builders
    /\ heap[house["cheap"]] # <<>>

\* C6 as stated: on a CheapHouseBuilder the House retrieved after
\* buildBasicHouse() is rendered as "House parts: Walls, Windows, Door, Roof"
\* and the one retrieved after the buildFullHouse() that follows as
\* "House parts: Walls, Windows, Door, Roof, Garage, Swimming pool, Garden".
C6_ExactText ==
    \A i \in DOMAIN retrieved :
        LET r == retrieved[i] IN
        r.b = "cheap" =>
            /\ r.calls = <<"buildBasicHouse">>
                  => listParts(heap[r.h]) = "House parts: Walls, Windows, Door, Roof"
            /\ r.calls = <<"buildFullHouse">>
                  => listParts(heap[r.h]) =
                        "House parts: Walls, Windows, Door, Roof, Garage, Swimming pool, Garden"

\* C6, amended: the two Houses have exactly the parts of their own recipe,
\* none carried over, and listParts renders them as the two texts of the
\* claim, each followed by a newline character.
C6_TextWithNewline ==
    \A i \in DOMAIN retrieved :
        LET r == retrieved[i] IN
        r.b = "cheap" =>
            /\ r.calls = <<"buildBasicHouse">>
                  => /\ heap[r.h] = <<"Walls", "Windows", "Door", "Roof">>
                     /\ listParts(heap[r.h]) = "House parts: Walls, Windows, Door, Roof\n"
            /\ r.calls = <<"buildFullHouse">>
                  => /\ heap[r.h] = <<"Walls", "Windows", "Door", "Roof",
                                      "Garage", "Swimming pool", "Garden">>
                     /\ listParts(heap[r.h]) =
                           "House parts: Walls, Windows, Door, Roof, Garage, Swimming pool, Garden\n"

\* The scenario of the claim: a fresh CheapHouseBuilder bound to the Director,
\* basic recipe, getHouse, full recipe, getHouse.
C6_Witness ==
    /\ director = "cheap"
    /\ constructed = {"cheap"}
    /\ last = Call("getHouse", "cheap", FALSE)
    /\ Len(retrieved) = 2
    /\ retrieved[1] = [h |-> 1, b |-> "cheap", calls |-> <<"buildBasicHouse">>]
    /\ retrieved[2] = [h |-> 2, b |-> "cheap", calls |-> <<"buildFullHouse">>]
    /\ Len(heap[2]) = 7

\* C7: the same calls on a fresh CheapHouseBuilder and a fresh CastleBuilder
\* give retrieved products of equal length with the same kind of part at each
\* position; the labels differ at most for the walls.
C7_VariantsAgree ==
    \A i, j \in DOMAIN retrieved :
        LET c == retrieved[i]
            k == retrieved[j] IN
        (/\ ClassOf(c.b) = "CheapHouseBuilder"
         /\ ClassOf(k.b) = "CastleBuilder"
         /\ c.calls = k.calls)
            => /\ Len(heap[c.h]) = Len(heap[k.h])
               /\ \A p \in DOMAIN heap[c.h] :
                     /\ KindOf(heap[c.h][p]) = KindOf(heap[k.h][p])
                     /\ heap[c.h][p] # heap[k.h][p] => KindOf(heap[c.h][p]) = "walls"

\* Both classes ran the full recipe and their products were retrieved; the
\* two differ in the text of the walls label.
C7_Witness ==
    \E i, j \in DOMAIN retrieved :
        /\ retrieved[i].b = "cheap"
        /\ retrieved[j].b = "castle"
        /\ retrieved[i].calls = <<"buildFullHouse">>
        /\ retrieved[j].calls = <<"buildFullHouse">>
        /\ heap[retrieved[i].h][1] = "Walls"
        /\ heap[retrieved[j].h][1] = "Walls marmol"

\* C8: setBuilder(b) changes the Director's binding to b and nothing else, no
\* builder's House and no House's parts; a recipe afterwards appends to the
\* product of the bound builder and changes no other House.
C8_SetBuilderFrame ==
    [][/\ last'.op = "setBuilder"
            => /\ director' = last'.b
               /\ heap' = heap
               /\ house' = house
               /\ retrieved' = retrieved
       /\ (last'.op \in Recipes /\ ~last'.threw)
            => /\ last'.b = director
               /\ heap'[house[director]] # heap[house[director]]
               /\ \A h \in DOMAIN heap :
                     h # house[director] => heap'[h] = heap[h]]_vars

\* The Director ran a recipe on the first builder, was rebound to the second
\* and ran a recipe there: the first builder's product in progress is as the
\* first recipe left it.
C8_Witness ==
    /\ director = "castle"
    /\ last = Call("buildFullHouse", "castle", FALSE)
    /\ calls["cheap"] = <<"buildBasicHouse">>
    /\ heap[house["cheap"]] = <<"Walls", "Windows", "Door", "Roof">>
    /\ Len(heap[house["castle"]]) = 7

\* C9: once getHouse() has returned a House, no builder references it, and no
\* later call changes its parts.
C9_RetrievedFrozen ==
    [][/\ \A i \in DOMAIN retrieved : heap'[retrieved[i].h] = heap[retrieved[i].h]
       /\ \A i \in DOMAIN retrieved' :
             \A b \in Builders : house'[b] # retrieved'[i].h]_vars

\* A House was retrieved with parts and its builder went on to make parts
\* for the next product.
C9_Witness ==
    \E i \in DOMAIN retrieved :
        /\ heap[retrieved[i].h] # <<>>
        /\ calls[retrieved[i].b] # <<>>
        /\ heap[house[retrieved[i].b]] # <<>>

\* C10: every constructed builder holds exactly one House, no two builders
\* hold the same House, and a call on one builder leaves the product in
\* progress of every other builder as it was.
C10_ExclusiveOwnership ==
    /\ [](/\ \A b \in Builders :
               IF b \in constructed THEN house[b] \in DOMAIN heap ELSE house[b] = null
          /\ \A b1, b2 \in constructed : b1 # b2 => house[b1] # house[b2])
    /\ [][\A b \in constructed :
             last'.b # b => heap'[house[b]] = heap[house[b]]]_vars

\* Both builders hold a product in progress, the last call was a step on one
\* of them, and one of them was reset or emptied by getHouse before.
C10_Witness ==
    /\ constructed = Builders
    /\ heap[house["cheap"]] # <<>>
    /\ heap[house["castle"]] # <<>>
    /\ last = Call("produceWalls", "castle", FALSE)
    /\ Len(heap) > 2
====
